---- MODULE Spec2Model ----
(***************************************************************************)
(* A model of the sidebot tool-calling loop: perform_query of query.py     *)
(* (the conversation loop over a streaming chat model and three tools)     *)
(* and the Toolbox / toolinvoke dispatcher of tool.py.                     *)
(***************************************************************************)
EXTENDS Integers, Sequences, FiniteSets, TLC

\* ------------------------------------------------------------------ bounds
MaxTurns == 2      \* user submissions on one history
MaxRequests == 2   \* model requests (rounds) over the whole session
MaxCallIds == 2    \* tool calls the model emits over the whole session
MaxChunks == 3     \* chunks streamed over the whole session

\* ------------------------------------------------------------- vocabulary
\* query.py:86-87, tools_by_name: the names of the three registered tools
tools_by_name == {"update_dashboard", "reset_dashboard", "query"}

\* a name the model may ask for that is in no registry
UnknownName == "bogus"

NoArg == "<absent>"

\* The arguments a model sends with a call: a JSON object that may or may
\* not carry the parameters "query" and "title".
ArgsFull == [query |-> "SELECT", title |-> "T"]
ArgsQuery == [query |-> "SELECT", title |-> NoArg]
ArgsNone == [query |-> NoArg, title |-> NoArg]

\* The (name, arguments) pairs the model draws its tool calls from.
CallKinds ==
  { [name |-> "update_dashboard", args |-> ArgsFull],
    [name |-> "update_dashboard", args |-> ArgsQuery],
    [name |-> "reset_dashboard", args |-> ArgsNone],
    [name |-> "query", args |-> ArgsQuery],
    [name |-> UnknownName, args |-> ArgsNone] }

ToolCall(id, kind) == [id |-> id, name |-> kind.name, args |-> kind.args]

\* finish signals of the chat transport (spec section 4.4); the source never
\* reads them, the response carries them all the same
FinishReasons == {"stop", "tool_calls", "length", "content_filter", "other"}

\* text of one streamed delta; "" is a delta without text
ChunkTexts == {"", "a"}

\* ---------------------------------------------------------------- messages
Msg(role, content, calls, id, name) ==
  [role |-> role, content |-> content, tool_calls |-> calls,
   tool_call_id |-> id, name |-> name]

\* query.py:33
SystemMessage(c) == Msg("system", c, <<>>, 0, "")
\* query.py:90
HumanMessage(c) == Msg("user", c, <<>>, 0, "")
\* query.py:134
AIMessage(c) == Msg("assistant", c, <<>>, 0, "")
\* query.py:122: what ainvoke(tool_call) returns for a call that ran
ToolMessage(call, content) == Msg("tool", content, <<>>, call.id, call.name)
\* query.py:96,116: the response of a stream that delivered no chunk
None == Msg("none", "", <<>>, 0, "")

\* query.py:111-114: response = chunk, then response += chunk
MergeChunk(response, chunk) ==
  IF response = None THEN chunk
  ELSE [response EXCEPT !.content = response.content \o chunk.content,
                        !.tool_calls = response.tool_calls \o chunk.tool_calls]

\* query.py:107-110: the fragment handed to the caller
Fragment(content) == [role |-> "assistant", content |-> content]

VARIABLES
  messages,   \* the history list shared by all turns (app.py:163)
  pc,         \* where the perform_query generator stands
  response,   \* query.py:96 the accumulated response of the round
  finish,     \* finish signal of the round's response
  idx,        \* position of the for loop of query.py:120 in response.tool_calls
  out,        \* fragments yielded to the caller in this turn
  sent,       \* the history handed to astream at the latest model request
  nreq,       \* model requests issued in the session
  turnreq,    \* model requests issued in this turn
  turn,       \* user submissions so far
  nextId,     \* next fresh tool-call id
  nchunks,    \* chunks received in the session
  dashboard,  \* DashboardState: current_query / current_title (app.py:161-162)
  escaped,    \* the exception that left the generator, "" when none
  dispatched, \* the call dispatched last in the round, what the query executor
              \* did with its query, and the collaborators the call invoked
  tcall,      \* tool.py: the tool call handed to a dispatcher
  tfunc,      \* tool.py: what the callable behind the call does when it runs
  top,        \* tool.py: the dispatcher that ran, "none" before it has
  tresult,    \* tool.py: what the dispatcher returned
  tinvoked,   \* tool.py: what each run of toolinvoke under the dispatcher made
  flights,    \* per submission: where its perform_query generator stands
  skind,      \* content shape of the transport's chunks: "str" or "list"
  sresp,      \* query.py:96 content of the response accumulated in the round
  sout,       \* texts of the fragments yielded in the round
  sn,         \* chunks received in the round
  spc,        \* "stream" until the response is appended, then "appended"
  sig,        \* tool.py:103 the signature of the function handed to @tool
  reg,        \* "defined", then "registered" or "failed" once @tool has run
  regerr,     \* str() of the exception that @tool raised, "" when none
  wrapped,    \* tool.py:49-53 the WrappedTool that @tool returned
  toolbox,    \* tool.py:26-34 the Toolbox built from the wrapped tools
  scall,      \* the error reported by a tool call of the conversation
  lists,      \* the list objects made for explain_plot, by identity
  ebind,      \* the list that the name messages of explain_plot refers to
  esnap,      \* the messages of the caller's list when explain_plot was called
  epc,        \* where explain_plot and the perform_query of its ask stand
  eresp,      \* the response of the round of the ask
  eidx,       \* position of the for loop of the ask in eresp.tool_calls
  easks,      \* questions asked in the modal chat, the initial one included
  ereq,       \* model requests issued by the asks
  flock,      \* the task that holds the reactive lock, "" when it is free
  ftask,      \* per task: its position in the body it runs and its arguments
  frendered   \* what show_query and show_title rendered last

loopvars == <<messages, pc, response, finish, idx, out, sent, nreq, turnreq, turn,
              nextId, nchunks, dashboard, escaped, dispatched>>

toolvars == <<tcall, tfunc, top, tresult, tinvoked>>

\* the submissions of a session whose handler runs are told apart by name
Flights == {"first", "second"}

\* a submission whose perform_query has not started
IdleFlight == [pc |-> "idle", response |-> None, idx |-> 0]

flightvars == <<flights>>

streamvars == <<skind, sresp, sout, sn, spc>>

schemavars == <<sig, reg, regerr, wrapped, toolbox, scall>>

explainvars == <<lists, ebind, esnap, epc, eresp, eidx, easks, ereq>>

filtervars == <<flock, ftask, frendered>>

uivars == <<explainvars, filtervars>>

auxvars == <<flightvars, streamvars, schemavars, uivars>>

vars == <<loopvars, toolvars, auxvars>>

\* content of a message or chunk: a str, or a list of content blocks
StrContent(text) == [kind |-> "str", text |-> text, blocks |-> <<>>]
ListContent(blocks) == [kind |-> "list", text |-> "", blocks |-> blocks]

\* query.py:96 response = None
NoContent == [kind |-> "none", text |-> "", blocks |-> <<>>]

InitFlights == flights = [f \in Flights |-> IdleFlight]

InitStream ==
  /\ skind = "str"
  /\ sresp = NoContent
  /\ sout = <<>>
  /\ sn = 0
  /\ spc = "stream"

\* no descriptor yet
NoSchema == [ok |-> FALSE, error |-> "", name |-> "", properties |-> <<>>, required |-> <<>>]

\* no WrappedTool yet
NoTool == [name |-> "", func |-> <<>>, schema |-> NoSchema]

\* no Toolbox yet
NoToolbox == [made |-> FALSE, tools |-> <<>>, schema |-> <<>>]

\* no tool call yet
NoCall == "<no call>"

InitSchema ==
  /\ sig = <<>>
  /\ reg = "defined"
  /\ regerr = ""
  /\ wrapped = NoTool
  /\ toolbox = NoToolbox
  /\ scall = NoCall

\* the list objects explain_plot deals with: the one made at the call site
\* (app.py:232,269 [*messages]) and the one made inside (explain_plot.py:28);
\* "session" is the list of app.py:163, held by the variable messages
ListIds == {"argument", "local"}

InitExplain ==
  /\ lists = [id \in ListIds |-> <<>>]
  /\ ebind = ""
  /\ esnap = <<>>
  /\ epc = "idle"
  /\ eresp = None
  /\ eidx = 0
  /\ easks = 0
  /\ ereq = 0

\* the tasks that take the reactive lock: two background tasks that call
\* update_filter and the session's own flush cycle
Updaters == {"task1", "task2"}
Tasks == Updaters \cup {"session"}

\* a task outside update_filter and outside a flush
IdleTask == [at |-> 0, waiting |-> FALSE, query |-> "", title |-> ""]

InitFilter ==
  /\ flock = ""
  /\ ftask = [t \in Tasks |-> IdleTask]
  /\ frendered = [query |-> "", title |-> ""]

InitUi ==
  /\ InitExplain
  /\ InitFilter

InitAux ==
  /\ InitFlights
  /\ InitUi
  /\ InitStream
  /\ InitSchema

\* no call has been dispatched in the round
NoDispatch ==
  [call |-> [id |-> 0, name |-> "", args |-> ArgsNone], qout |-> "", log |-> <<>>]

InitLoop ==
  /\ messages = <<SystemMessage("prompt")>>
  /\ pc = "idle"
  /\ response = None
  /\ finish = "none"
  /\ idx = 0
  /\ out = <<>>
  /\ sent = <<>>
  /\ nreq = 0
  /\ turnreq = 0
  /\ turn = 0
  /\ nextId = 1
  /\ nchunks = 0
  /\ dashboard = [query |-> "", title |-> ""]
  /\ escaped = ""
  /\ dispatched = NoDispatch

\* no dispatcher of tool.py is exercised in the conversation loop
Init ==
  /\ InitLoop
  /\ InitAux
  /\ tcall = [id |-> "", name |-> "", arguments |-> ""]
  /\ tfunc = "return"
  /\ top = "none"
  /\ tresult = [tool_call_id |-> "", role |-> "", name |-> "", content |-> ""]
  /\ tinvoked = <<>>

\* ------------------------------------------------------------------- tools
\* what the query executor does with a query: it returns rows or it raises
QueryOutcomes == {"rows", "raise"}

\* A call outcome: the value returned or the exception raised, and the
\* DashboardState the call leaves.
Returned(value, dash) ==
  [raised |-> FALSE, value |-> value, exc |-> "", dash |-> dash, log |-> <<>>]
Raised(exc, dash) ==
  [raised |-> TRUE, value |-> "", exc |-> exc, dash |-> dash, log |-> <<>>]

\* the outcome r of a call that invoked these collaborators, in this order
Logged(r, log) == [r EXCEPT !.log = log]

\* query.py:69,84 one invocation of the query executor
QueryDbCall(q) == [fn |-> "query_db", query |-> q, title |-> ""]
\* query.py:71,76 one invocation of the dashboard sink
UpdateFilterCall(q, t) == [fn |-> "update_filter", query |-> q, title |-> t]

\* app.py:302-308 update_filter: sets current_query and current_title
update_filter(query, title) == [query |-> query, title |-> title]

\* an update_dashboard that does not verify the query
update_dashboard_unverified(args, dash, qout) ==
  Logged(Returned("null", update_filter(args.query, args.title)),
         <<UpdateFilterCall(args.query, args.title)>>)

\* an update_dashboard that updates the filter before it verifies the query
update_dashboard_eager(args, dash, qout) ==
  LET log == <<UpdateFilterCall(args.query, args.title), QueryDbCall(args.query)>>
      set == update_filter(args.query, args.title)
  IN  Logged(IF qout = "raise" THEN Raised("query failed", set)
             ELSE Returned("null", set), log)

\* query.py:59-71 update_dashboard: query_db(query) throws if the query is
\* not OK, and only then update_filter(query, title)
update_dashboard(args, dash, qout) ==
  IF qout = "raise"
  THEN Logged(Raised("query failed", dash), <<QueryDbCall(args.query)>>)
  ELSE Logged(Returned("null", update_filter(args.query, args.title)),
              <<QueryDbCall(args.query), UpdateFilterCall(args.query, args.title)>>)

\* a reset_dashboard that leaves the dashboard as it is
reset_dashboard_noop(args, dash, qout) == Returned("null", dash)

\* query.py:74-76 reset_dashboard
reset_dashboard(args, dash, qout) ==
  Logged(Returned("null", update_filter("", "")), <<UpdateFilterCall("", "")>>)

\* query.py:79-84 query: returns what query_db returns
query(args, dash, qout) ==
  Logged(IF qout = "raise" THEN Raised("query failed", dash) ELSE Returned("rows", dash),
         <<QueryDbCall(args.query)>>)

\* the parameters without default of each tool's signature (query.py:59-80)
Required(name) ==
  CASE name = "update_dashboard" -> {"query", "title"}
    [] name = "query" -> {"query"}
    [] OTHER -> {}

Provided(args) == {p \in {"query", "title"} : args[p] # NoArg}

\* the JSON content of a ToolMessage: a plain value, or the error dictionary
Payload(value) == [success |-> TRUE, error |-> "", value |-> value]
ErrorPayload(error) == [success |-> FALSE, error |-> error, value |-> ""]

\* query.py:36-45 safe_tool: the wrapper returns fn's value, or
\* {"success": False, "error": str(e)} when fn raises
safe_tool(r) ==
  Logged(IF r.raised THEN Returned(ErrorPayload(r.exc), r.dash)
         ELSE Returned(Payload(r.value), r.dash),
         r.log)

RunTool(name, args, dash, qout) ==
  CASE name = "update_dashboard" -> update_dashboard(args, dash, qout)
    [] name = "reset_dashboard" -> reset_dashboard(args, dash, qout)
    [] OTHER -> query(args, dash, qout)

\* query.py:45,122 tool(wrapper).ainvoke(tool_call): the structured tool
\* checks the call's arguments against the signature of fn before wrapper
\* runs, outside the try of safe_tool, and raises when a required parameter
\* is missing; otherwise the wrapper's result becomes a ToolMessage carrying
\* the call's id and name
ainvoke(call, dash, qout) ==
  IF ~(Required(call.name) \subseteq Provided(call.args))
  THEN Raised("validation error", dash)
  ELSE LET r == safe_tool(RunTool(call.name, call.args, dash, qout))
       IN  Logged(Returned(ToolMessage(call, r.value), r.dash), r.log)

\* query.py:122 tools_by_name[tool_call["name"]].ainvoke(tool_call): the
\* subscript raises KeyError(name) for a name that is no key; str() of a
\* KeyError is the repr of the key
Dispatch(call, dash, qout) ==
  IF call.name \notin tools_by_name
  THEN Raised("'" \o call.name \o "'", dash)
  ELSE ainvoke(call, dash, qout)

\* a dispatch order that walks the calls backwards
CallAtReversed(resp, i) == resp.tool_calls[Len(resp.tool_calls) + 1 - i]

\* query.py:120 for tool_call in response.tool_calls: the i-th call taken
CallAt(resp, i) == resp.tool_calls[i]

\* a classification that asks the model again after a response without calls
ClassifyRetrying(resp) ==
  IF Len(resp.tool_calls) > 0 THEN "dispatch" ELSE "request"

\* query.py:119-125 where the round goes once its response is appended:
\* to the dispatch of its calls, or out of the generator (return)
Classify(resp) ==
  IF Len(resp.tool_calls) > 0 THEN "dispatch" ELSE "returned"

\* a loop that gives up after the first round
LoopHeadCapped(rounds) == IF rounds >= 1 THEN "returned" ELSE "request"

\* query.py:92 while True: after the dispatches of a round the generator
\* goes back to the head of the loop, however many rounds the turn has had
LoopHead(rounds) == "request"

\* query.py:131-135 the except clause: the error becomes an assistant
\* message of the history
ErrorMessage(exc) == AIMessage("**Error**: " \o exc)

\* a separator of one newline
SingleNewline == Fragment("\n")

\* query.py:139
Separator == Fragment("\n\n")

\* an append that replaces a trailing assistant message
append_overwriting(h, m) ==
  IF Len(h) > 0 /\ h[Len(h)].role = "assistant"
  THEN [h EXCEPT ![Len(h)] = m]
  ELSE Append(h, m)

\* query.py:90,116,121,134 messages.append(m)
append(h, m) == Append(h, m)

\* ----------------------------------------------------------------- actions
\* app.py:281-284 / query.py:90: a user submission starts perform_query on
\* the shared history; the generator appends the user message
NewTurn ==
  /\ pc \in {"idle", "returned", "raised", "cancelled"}
  /\ turn < MaxTurns
  /\ turn' = turn + 1
  /\ messages' = append(messages, HumanMessage("u"))
  /\ pc' = "request"
  /\ response' = None
  /\ finish' = "none"
  /\ idx' = 0
  /\ out' = <<>>
  /\ turnreq' = 0
  /\ escaped' = ""
  /\ dispatched' = NoDispatch
  /\ UNCHANGED <<sent, nreq, nextId, nchunks, dashboard>>
  /\ UNCHANGED <<toolvars, auxvars>>

\* query.py:92-96: the head of the loop sends the history to the model
Request ==
  /\ pc = "request"
  /\ nreq < MaxRequests
  /\ sent' = messages
  /\ nreq' = nreq + 1
  /\ turnreq' = turnreq + 1
  /\ response' = None
  /\ finish' = "none"
  /\ idx' = 0
  /\ pc' = "stream"
  /\ dispatched' = NoDispatch
  /\ UNCHANGED <<messages, out, turn, nextId, nchunks, dashboard, escaped>>
  /\ UNCHANGED <<toolvars, auxvars>>

\* the chunks a stream can deliver next: a delta without text, a text delta,
\* or a delta carrying one tool call with a fresh id
NextChunks ==
  { Msg("assistant", t, <<>>, 0, "") : t \in ChunkTexts } \cup
  (IF nextId <= MaxCallIds
   THEN { Msg("assistant", "", <<ToolCall(nextId, k)>>, 0, "") : k \in CallKinds }
   ELSE {})

\* query.py:97-114: one chunk arrives; its text, when not empty, is yielded
\* and the chunk is merged into response
RecvChunk(chunk) ==
  /\ pc = "stream"
  /\ nchunks < MaxChunks
  /\ nchunks' = nchunks + 1
  /\ out' = IF chunk.content # "" THEN Append(out, Fragment(chunk.content)) ELSE out
  /\ response' = MergeChunk(response, chunk)
  /\ nextId' = nextId + Len(chunk.tool_calls)
  /\ UNCHANGED <<messages, pc, finish, idx, sent, nreq, turnreq, turn, dashboard, escaped>>
  /\ UNCHANGED <<toolvars, auxvars, dispatched>>

\* query.py:116-125,131-135: the stream ends; response is appended and the
\* round is classified by len(response.tool_calls) alone. A stream without
\* chunks leaves response None, whose attribute access raises inside the try.
StreamEnd(fr) ==
  /\ pc = "stream"
  /\ finish' = fr
  /\ IF response = None
     THEN /\ messages' = messages \o
               <<response, ErrorMessage("'NoneType' object has no attribute 'tool_calls'")>>
          /\ pc' = "returned"
          /\ idx' = idx
     ELSE /\ messages' = append(messages, response)
          /\ pc' = Classify(response)
          /\ idx' = IF Len(response.tool_calls) > 0 THEN 1 ELSE idx
  /\ UNCHANGED <<response, out, sent, nreq, turnreq, turn, nextId, nchunks, dashboard, escaped>>
  /\ UNCHANGED <<toolvars, auxvars, dispatched>>

\* query.py:94-97: the transport raises while the round is streamed; the
\* async for stands outside the try of query.py:118, the exception leaves
\* the generator
StreamRaise ==
  /\ pc = "stream"
  /\ pc' = "raised"
  /\ escaped' = "transport error"
  /\ UNCHANGED <<messages, response, finish, idx, out, sent, nreq, turnreq, turn,
                 nextId, nchunks, dashboard>>
  /\ UNCHANGED <<toolvars, auxvars, dispatched>>

\* query.py:119-123,131-139: the call at idx is dispatched and awaited; its
\* ToolMessage is appended. An exception of the dispatch ends the turn with
\* an error message in the history. After the last call the separator is
\* yielded and the loop goes back to its head.
DispatchTool(qout) ==
  /\ pc = "dispatch"
  /\ LET call == CallAt(response, idx)
         r == Dispatch(call, dashboard, qout)
     IN  /\ dashboard' = r.dash
         /\ dispatched' = [call |-> call, qout |-> qout, log |-> r.log]
         /\ IF r.raised
            THEN /\ messages' = append(messages, ErrorMessage(r.exc))
                 /\ pc' = "returned"
                 /\ idx' = idx
                 /\ out' = out
            ELSE /\ messages' = append(messages, r.value)
                 /\ IF idx < Len(response.tool_calls)
                    THEN pc' = "dispatch" /\ idx' = idx + 1 /\ out' = out
                    ELSE /\ pc' = LoopHead(turnreq)
                         /\ idx' = idx
                         /\ out' = Append(out, Separator)
  /\ UNCHANGED <<response, finish, sent, nreq, turnreq, turn, nextId, nchunks, escaped>>
  /\ UNCHANGED <<toolvars, auxvars>>

\* The task that iterates the generator is cancelled while the generator is
\* suspended (query.py:97 awaiting a chunk, :107 and :139 at a yield, :122
\* awaiting a dispatch): CancelledError is no Exception, the except clause
\* of query.py:131 does not take it, and the generator ends where it stands.
Cancel ==
  /\ \/ pc \in {"stream", "dispatch"}
     \/ pc = "request" /\ turnreq > 0
  /\ pc' = "cancelled"
  /\ escaped' = "CancelledError"
  /\ UNCHANGED <<messages, response, finish, idx, out, sent, nreq, turnreq, turn,
                 nextId, nchunks, dashboard>>
  /\ UNCHANGED <<toolvars, auxvars, dispatched>>

Next ==
  \/ NewTurn
  \/ Request
  \/ \E chunk \in NextChunks : RecvChunk(chunk)
  \/ \E fr \in FinishReasons : StreamEnd(fr)
  \/ StreamRaise
  \/ \E qout \in QueryOutcomes : DispatchTool(qout)
  \/ Cancel

Spec == Init /\ [][Next]_vars

\* the loop without cancellation: every turn runs until it returns or raises
NextNoCancel ==
  \/ NewTurn
  \/ Request
  \/ \E chunk \in NextChunks : RecvChunk(chunk)
  \/ \E fr \in FinishReasons : StreamEnd(fr)
  \/ StreamRaise
  \/ \E qout \in QueryOutcomes : DispatchTool(qout)

SpecNoCancel == Init /\ [][NextNoCancel]_vars

\* ------------------------------------------------------- tool.py dispatch
\* the argument strings a tool call may carry
ArgObject == "{\"query\": \"SELECT\"}"
ArgEmptyObject == "{}"
ArgArray == "[1]"
ArgBroken == "{"
ArgStrings == {ArgObject, ArgEmptyObject, ArgArray, ArgBroken}

\* tool.py:65 json.loads(arguments): the parsed value, or the decode error
json_loads(s) ==
  CASE s = ArgObject -> [ok |-> TRUE, type |-> "dict", keys |-> {"query"}, err |-> ""]
    [] s = ArgEmptyObject -> [ok |-> TRUE, type |-> "dict", keys |-> {}, err |-> ""]
    [] s = ArgArray -> [ok |-> TRUE, type |-> "list", keys |-> {}, err |-> ""]
    [] OTHER -> [ok |-> FALSE, type |-> "", keys |-> {},
                 err |-> "Expecting property name enclosed in double quotes"]

\* what the body of a registered callable does once it is entered
Behaviours == {"return", "raise", "raise_empty"}

\* app.py:333 Toolbox(update_dashboard, query_db): tool.py:33 self.tools
ToolboxTools == {"update_dashboard", "query"}

\* tool.py:40 self.tools.get(name): the tool, or None
ToolGet(name, behaviour) ==
  IF name \in ToolboxTools
  THEN [kind |-> "tool", name |-> name, behaviour |-> behaviour]
  ELSE [kind |-> "None", name |-> "", behaviour |-> ""]

\* tool.py:43 the stand-in callable for an unknown name
UnknownToolLambda(name) == [kind |-> "lambda", name |-> name, behaviour |-> ""]

\* tool.py:66 await func(**kwargs): the value, or str() of the exception
\* raised. None is not callable; ** wants a mapping; the tools of app.py
\* take a required parameter query; the dict the lambda returns cannot be
\* awaited; an exception raised without arguments has the empty str().
CallFunc(func, kwargs) ==
  CASE kwargs.type # "dict" ->
         Raised("argument after ** must be a mapping, not list", <<>>)
    [] kwargs.type = "dict" /\ func.kind = "None" ->
         Raised("'NoneType' object is not callable", <<>>)
    [] kwargs.type = "dict" /\ func.kind = "lambda" ->
         Raised("object dict can't be used in 'await' expression", <<>>)
    [] kwargs.type = "dict" /\ func.kind = "tool" /\ "query" \notin kwargs.keys ->
         Raised("missing 1 required positional argument: 'query'", <<>>)
    [] OTHER ->
         CASE func.behaviour = "raise" -> Raised("boom", <<>>)
           [] func.behaviour = "raise_empty" -> Raised("", <<>>)
           [] OTHER -> Returned("rows", <<>>)

\* tool.py:69-71 the JSON text of the failure dictionary
ToolErrorJson(error) ==
  [success |-> FALSE, error |-> error, traceback |-> "Traceback", value |-> ""]

\* tool.py:66 the JSON text of a returned value
ToolValueJson(value) ==
  [success |-> TRUE, error |-> "", traceback |-> "", value |-> value]

\* tool.py:59-78 toolinvoke: parse the arguments, call and await func, dump
\* the value; any Exception of the three becomes the failure dictionary
toolinvoke(func, tool_call) ==
  LET kwargs == json_loads(tool_call.arguments)
      r == IF kwargs.ok THEN CallFunc(func, kwargs) ELSE Raised(kwargs.err, <<>>)
  IN  [tool_call_id |-> tool_call.id, role |-> "tool", name |-> tool_call.name,
       content |-> IF r.raised THEN ToolErrorJson(r.exc) ELSE ToolValueJson(r.value)]

\* tool.py:36-46 Toolbox.__call__: for an unknown name the result of the
\* first toolinvoke is dropped (no return), and toolinvoke runs again on None
Toolbox_call(tool_call, behaviour) ==
  LET tool == ToolGet(tool_call.name, behaviour)
      dropped == IF tool.kind = "None"
                 THEN toolinvoke(UnknownToolLambda(tool_call.name), tool_call)
                 ELSE tool
  IN  toolinvoke(tool, tool_call)

\* tool.py:36-46 the runs of toolinvoke that Toolbox.__call__ awaits for one
\* call, in order: the one on the stand-in when the name is unknown, whose
\* result is dropped, and the one whose result is returned
Toolbox_invocations(tool_call, behaviour) ==
  LET tool == ToolGet(tool_call.name, behaviour)
  IN  (IF tool.kind = "None"
       THEN <<toolinvoke(UnknownToolLambda(tool_call.name), tool_call)>>
       ELSE <<>>) \o <<toolinvoke(tool, tool_call)>>

\* query.py:36-45 the wrapper of safe_tool around a callable of this behaviour
SafeToolWrapper(behaviour) ==
  safe_tool(CASE behaviour = "raise" -> Raised("boom", <<>>)
              [] behaviour = "raise_empty" -> Raised("", <<>>)
              [] OTHER -> Returned("rows", <<>>))

ToolCallParams ==
  [id : {"call_1", "call_2"}, name : ToolboxTools \cup {UnknownName}, arguments : ArgStrings]

InitTool ==
  /\ InitLoop
  /\ InitAux
  /\ tcall \in ToolCallParams
  /\ tfunc \in Behaviours
  /\ top = "none"
  /\ tresult = [tool_call_id |-> "", role |-> "", name |-> "", content |-> ""]
  /\ tinvoked = <<>>

\* tool.py:55-78 a Tool Wrapper is invoked on the call: toolinvoke(tool, call)
WrapperInvoke ==
  /\ top = "none"
  /\ tcall.name \in ToolboxTools
  /\ top' = "toolinvoke"
  /\ tresult' = toolinvoke(ToolGet(tcall.name, tfunc), tcall)
  /\ tinvoked' = <<toolinvoke(ToolGet(tcall.name, tfunc), tcall)>>
  /\ UNCHANGED <<tcall, tfunc>>
  /\ UNCHANGED <<loopvars, auxvars>>

\* tool.py:36-46 the Toolbox dispatches the call
ToolboxDispatch ==
  /\ top = "none"
  /\ top' = "toolbox"
  /\ tresult' = Toolbox_call(tcall, tfunc)
  /\ tinvoked' = Toolbox_invocations(tcall, tfunc)
  /\ UNCHANGED <<tcall, tfunc>>
  /\ UNCHANGED <<loopvars, auxvars>>

\* query.py:36-45 the safe_tool wrapper is awaited with well-formed arguments
SafeToolInvoke ==
  /\ top = "none"
  /\ tcall.name \in ToolboxTools
  /\ tcall.arguments = ArgObject
  /\ top' = "safe_tool"
  /\ tresult' = [tool_call_id |-> tcall.id, role |-> "tool", name |-> tcall.name,
                 content |-> SafeToolWrapper(tfunc).value]
  /\ tinvoked' = <<tresult'>>
  /\ UNCHANGED <<tcall, tfunc>>
  /\ UNCHANGED <<loopvars, auxvars>>

NextTool ==
  \/ WrapperInvoke
  \/ ToolboxDispatch
  \/ SafeToolInvoke

SpecTool == InitTool /\ [][NextTool]_vars

\* ------------------------------------------- submissions on one history
\* app.py:281-300 (explain_plot.py:45-67): the submit handler hands the
\* session's messages list to perform_query and the stream to the chat; it
\* looks at no state of an earlier submission. Each submission f runs its
\* own generator of query.py:90-139 on the one list.

\* app.py:281-284, query.py:90: the handler of a submission runs and its
\* generator appends the user message
Submit(f) ==
  /\ flights[f].pc = "idle"
  /\ messages' = append(messages, HumanMessage(f))
  /\ flights' = [flights EXCEPT ![f].pc = "request"]
  /\ UNCHANGED <<pc, response, finish, idx, out, sent, nreq, turnreq, turn,
                 nextId, nchunks, dashboard, escaped, dispatched>>
  /\ UNCHANGED <<toolvars, streamvars, schemavars, uivars>>

\* query.py:92-96: the generator of f sends the list as it is now
FlightRequest(f) ==
  /\ flights[f].pc = "request"
  /\ nreq < MaxRequests
  /\ nreq' = nreq + 1
  /\ sent' = messages
  /\ flights' = [flights EXCEPT ![f] = [pc |-> "stream", response |-> None, idx |-> 0]]
  /\ UNCHANGED <<messages, pc, response, finish, idx, out, turnreq, turn,
                 nextId, nchunks, dashboard, escaped, dispatched>>
  /\ UNCHANGED <<toolvars, streamvars, schemavars, uivars>>

\* query.py:97-114: a chunk of the stream of f; both streams are appended
\* to the one chat
FlightRecvChunk(f, chunk) ==
  /\ flights[f].pc = "stream"
  /\ nchunks < MaxChunks
  /\ nchunks' = nchunks + 1
  /\ out' = IF chunk.content # "" THEN Append(out, Fragment(chunk.content)) ELSE out
  /\ flights' = [flights EXCEPT ![f].response = MergeChunk(flights[f].response, chunk)]
  /\ nextId' = nextId + Len(chunk.tool_calls)
  /\ UNCHANGED <<messages, pc, response, finish, idx, sent, nreq, turnreq, turn,
                 dashboard, escaped, dispatched>>
  /\ UNCHANGED <<toolvars, streamvars, schemavars, uivars>>

\* query.py:116-125,131-135: the stream of f ends
FlightStreamEnd(f) ==
  /\ flights[f].pc = "stream"
  /\ LET resp == flights[f].response
     IN  IF resp = None
         THEN /\ messages' = messages \o
                   <<resp, ErrorMessage("'NoneType' object has no attribute 'tool_calls'")>>
              /\ flights' = [flights EXCEPT ![f].pc = "returned"]
         ELSE /\ messages' = append(messages, resp)
              /\ flights' = [flights EXCEPT ![f].pc = Classify(resp),
                                           ![f].idx = IF Len(resp.tool_calls) > 0 THEN 1 ELSE 0]
  /\ UNCHANGED <<pc, response, finish, idx, out, sent, nreq, turnreq, turn,
                 nextId, nchunks, dashboard, escaped, dispatched>>
  /\ UNCHANGED <<toolvars, streamvars, schemavars, uivars>>

\* query.py:119-123,131-139: the generator of f dispatches its next call
FlightDispatch(f, qout) ==
  /\ flights[f].pc = "dispatch"
  /\ LET resp == flights[f].response
         i == flights[f].idx
         call == CallAt(resp, i)
         r == Dispatch(call, dashboard, qout)
     IN  /\ dashboard' = r.dash
         /\ dispatched' = [call |-> call, qout |-> qout, log |-> r.log]
         /\ IF r.raised
            THEN /\ messages' = append(messages, ErrorMessage(r.exc))
                 /\ flights' = [flights EXCEPT ![f].pc = "returned"]
                 /\ out' = out
            ELSE /\ messages' = append(messages, r.value)
                 /\ IF i < Len(resp.tool_calls)
                    THEN flights' = [flights EXCEPT ![f].idx = i + 1] /\ out' = out
                    ELSE /\ flights' = [flights EXCEPT ![f].pc = "request"]
                         /\ out' = Append(out, Separator)
  /\ UNCHANGED <<pc, response, finish, idx, sent, nreq, turnreq, turn,
                 nextId, nchunks, escaped>>
  /\ UNCHANGED <<toolvars, streamvars, schemavars, uivars>>

NextOverlap ==
  \/ \E f \in Flights : Submit(f)
  \/ \E f \in Flights : FlightRequest(f)
  \/ \E f \in Flights : \E chunk \in NextChunks : FlightRecvChunk(f, chunk)
  \/ \E f \in Flights : FlightStreamEnd(f)
  \/ \E f \in Flights : \E qout \in QueryOutcomes : FlightDispatch(f, qout)

SpecOverlap == Init /\ [][NextOverlap]_vars

\* ------------------------------------------------- content of one round
MaxStreamChunks == 3

\* a content block of a list content: {"type": ..., "text": ..., "index": ...}
TextBlock(text, index) == [type |-> "text", text |-> text, index |-> index]
ToolUseBlock(index) == [type |-> "tool_use", text |-> "", index |-> index]

\* the text deltas of one stream
DeltaTexts == {"", "Hel", "lo, ", "world"}

\* the contents a chunk of the transport can carry, by content shape
ChunkContents(kind) ==
  IF kind = "str"
  THEN { StrContent(t) : t \in DeltaTexts }
  ELSE { ListContent(<<>>), ListContent(<<ToolUseBlock(1)>>) } \cup
       { ListContent(<<TextBlock(t, 0)>>) : t \in DeltaTexts }

RECURSIVE JoinTexts(_)
\* "".join(texts)
JoinTexts(texts) ==
  IF texts = <<>> THEN "" ELSE Head(texts) \o JoinTexts(Tail(texts))

\* query.py:183-186 normalize_content of a dict: the text of a text block
NormalizeBlock(b) == IF b.type = "text" THEN b.text ELSE ""

\* query.py:178-187 normalize_content
normalize_content(content) ==
  IF content.kind = "str" THEN content.text
  ELSE JoinTexts([i \in DOMAIN content.blocks |-> NormalizeBlock(content.blocks[i])])

\* query.py:99 if chunk.content: a str is true unless "", a list unless []
Truthy(content) ==
  IF content.kind = "str" THEN content.text # "" ELSE Len(content.blocks) > 0

RECURSIVE merge_lists(_, _)
\* query.py:114 response += chunk on list contents: a block of the chunk is
\* merged into the block of the same index, its text appended, or is added
\* at the end when no block has that index
merge_lists(left, right) ==
  IF right = <<>> THEN left
  ELSE LET b == Head(right)
           same == {i \in DOMAIN left : left[i].index = b.index}
       IN  merge_lists(
             IF same = {} THEN Append(left, b)
             ELSE [i \in DOMAIN left |->
                     IF i \in same THEN [left[i] EXCEPT !.text = left[i].text \o b.text]
                     ELSE left[i]],
             Tail(right))

\* query.py:111-114 response = chunk / response += chunk, on the content
merge_content(resp, chunk) ==
  IF resp.kind = "none" THEN chunk
  ELSE IF resp.kind = "str" THEN StrContent(resp.text \o chunk.text)
  ELSE ListContent(merge_lists(resp.blocks, chunk.blocks))

InitRound ==
  /\ InitLoop
  /\ tcall = [id |-> "", name |-> "", arguments |-> ""]
  /\ tfunc = "return"
  /\ top = "none"
  /\ tresult = [tool_call_id |-> "", role |-> "", name |-> "", content |-> ""]
  /\ tinvoked = <<>>
  /\ InitFlights
  /\ InitUi
  /\ skind \in {"str", "list"}
  /\ sresp = NoContent
  /\ sout = <<>>
  /\ sn = 0
  /\ spc = "stream"
  /\ InitSchema

\* query.py:97-114: one chunk arrives; when its content is true the
\* normalized content is yielded; the chunk is merged into response
StreamChunk(content) ==
  /\ spc = "stream"
  /\ sn < MaxStreamChunks
  /\ sn' = sn + 1
  /\ sout' = IF Truthy(content) THEN Append(sout, normalize_content(content)) ELSE sout
  /\ sresp' = merge_content(sresp, content)
  /\ UNCHANGED <<skind, spc>>
  /\ UNCHANGED <<loopvars, toolvars, flightvars, schemavars, uivars>>

\* query.py:116 the stream is exhausted and response is appended
StreamDone ==
  /\ spc = "stream"
  /\ sn > 0
  /\ spc' = "appended"
  /\ UNCHANGED <<skind, sresp, sout, sn>>
  /\ UNCHANGED <<loopvars, toolvars, flightvars, schemavars, uivars>>

NextRound ==
  \/ \E content \in ChunkContents(skind) : StreamChunk(content)
  \/ StreamDone

SpecRound == InitRound /\ [][NextRound]_vars

\* ------------------------------------------------------ tool.py schemas
MaxParams == 3

\* the names of the parameters of a signature, by position
ParamNames == <<"a", "b", "c", "d">>

\* inspect.Parameter kinds
Kinds == {"POSITIONAL_OR_KEYWORD", "VAR_POSITIONAL", "KEYWORD_ONLY", "VAR_KEYWORD"}
Variadic == {"VAR_POSITIONAL", "VAR_KEYWORD"}

\* An annotation is the chain of its origins down to a plain type:
\* <<"Annotated", "list", "set">> is Annotated[list[set], "..."], <<"list">>
\* is list, <<>> is a parameter without annotation.
Unannotated == <<>>
ParamTypes ==
  { Unannotated, <<"int">>, <<"Annotated", "str">>, <<"set">>, <<"list", "set">> }

\* the description an Annotated carries
Desc == "The description"
NoDesc == "<none>"
NoItems == "<none>"

\* the order Python wants the kinds of a signature in
KindRank(kind) ==
  CASE kind = "POSITIONAL_OR_KEYWORD" -> 1
    [] kind = "VAR_POSITIONAL" -> 2
    [] kind = "KEYWORD_ONLY" -> 3
    [] OTHER -> 4

\* the signatures a def statement accepts: kinds in order, *args and
\* **kwargs once and without default, no positional parameter without
\* default after one with default
IsSignature(s) ==
  /\ \A i, j \in DOMAIN s : i < j => KindRank(s[i].kind) <= KindRank(s[j].kind)
  /\ \A i, j \in DOMAIN s : (i # j /\ s[i].kind \in Variadic) => s[i].kind # s[j].kind
  /\ \A i \in DOMAIN s : s[i].kind \in Variadic => ~s[i].default
  /\ \A i, j \in DOMAIN s :
       (i < j /\ s[i].kind = "POSITIONAL_OR_KEYWORD" /\ s[j].kind = "POSITIONAL_OR_KEYWORD"
          /\ s[i].default) => s[j].default

Signatures ==
  UNION { {s \in [1..n -> [default : BOOLEAN, kind : Kinds, ann : ParamTypes]] :
             IsSignature(s)} : n \in 0..MaxParams }

\* tool.py:180-185 type_dict
type_dict(type, description, items) ==
  [ok |-> TRUE, error |-> "", type |-> type, description |-> description, items |-> items]

\* tool.py:177 raise ValueError(f"Unsupported type: {t}")
UnsupportedType(t) ==
  [ok |-> FALSE, error |-> "Unsupported type: " \o t, type |-> "",
   description |-> NoDesc, items |-> NoItems]

RECURSIVE type_to_json_schema_lenient(_, _)
\* a type_to_json_schema that describes a type it does not know as an object
type_to_json_schema_lenient(t, desc) ==
  IF Head(t) = "Annotated" THEN type_to_json_schema_lenient(Tail(t), Desc)
  ELSE IF Head(t) = "list" /\ Len(t) > 1
  THEN type_dict("array", desc, type_to_json_schema_lenient(Tail(t), NoDesc).type)
  ELSE CASE Head(t) = "list" -> type_dict("array", desc, NoItems)
         [] Head(t) = "str" -> type_dict("string", desc, NoItems)
         [] Head(t) = "int" -> type_dict("integer", desc, NoItems)
         [] Head(t) = "float" -> type_dict("number", desc, NoItems)
         [] Head(t) = "bool" -> type_dict("boolean", desc, NoItems)
         [] Head(t) = "NoneType" -> type_dict("null", desc, NoItems)
         [] OTHER -> type_dict("object", desc, NoItems)

RECURSIVE type_to_json_schema(_, _)
\* tool.py:135-177 type_to_json_schema: Annotated hands its description
\* down, list[X] describes X as its items, the plain types map to their
\* JSON names, anything else raises
type_to_json_schema(t, desc) ==
  IF Head(t) = "Annotated" THEN type_to_json_schema(Tail(t), Desc)
  ELSE IF Head(t) = "list" /\ Len(t) > 1
  THEN LET items == type_to_json_schema(Tail(t), NoDesc)
       IN  IF items.ok THEN type_dict("array", desc, items.type) ELSE items
  ELSE CASE Head(t) = "dict" -> type_dict("object", desc, NoItems)
         [] Head(t) = "list" -> type_dict("array", desc, NoItems)
         [] Head(t) = "str" -> type_dict("string", desc, NoItems)
         [] Head(t) = "int" -> type_dict("integer", desc, NoItems)
         [] Head(t) = "float" -> type_dict("number", desc, NoItems)
         [] Head(t) = "bool" -> type_dict("boolean", desc, NoItems)
         [] Head(t) = "NoneType" -> type_dict("null", desc, NoItems)
         [] OTHER -> UnsupportedType(Head(t))

\* tool.py:113,124-128 the (name, schema) items of "properties": one per
\* annotated parameter, in declaration order
Properties(s) ==
  LET positions == [k \in DOMAIN s |-> k]
      Annotated(k) == s[k].ann # Unannotated
      annotated == SelectSeq(positions, Annotated)
  IN  [i \in DOMAIN annotated |->
         [name |-> ParamNames[annotated[i]],
          schema |-> type_to_json_schema(s[annotated[i]].ann, NoDesc)]]

\* tool.py:104-111 with the test of the kind left out
RequiredWithVariadic(s) ==
  LET positions == [k \in DOMAIN s |-> k]
      NoDefault(k) == ~s[k].default
      kept == SelectSeq(positions, NoDefault)
  IN  [i \in DOMAIN kept |-> ParamNames[kept[i]]]

\* tool.py:104-111 required: the names of the parameters whose default is
\* empty and whose kind is neither VAR_POSITIONAL nor VAR_KEYWORD
RequiredOf(s) ==
  LET positions == [k \in DOMAIN s |-> k]
      NoDefault(k) == ~s[k].default /\ s[k].kind \notin Variadic
      kept == SelectSeq(positions, NoDefault)
  IN  [i \in DOMAIN kept |-> ParamNames[kept[i]]]

\* tool.py:102-132 func_to_schema: the descriptor, or the exception of the
\* first property whose type cannot be described
func_to_schema(s, name) ==
  LET required == RequiredOf(s)
      properties == Properties(s)
      failed == {i \in DOMAIN properties : ~properties[i].schema.ok}
  IN  IF failed = {}
      THEN [ok |-> TRUE, error |-> "", name |-> name,
            properties |-> properties, required |-> required]
      ELSE LET first == CHOOSE i \in failed : \A j \in failed : i <= j
           IN  [ok |-> FALSE, error |-> properties[first].schema.error, name |-> name,
                properties |-> <<>>, required |-> <<>>]

\* tool.py:49-53 WrappedTool(func, name)
WrappedTool(func, name) == [name |-> name, func |-> func, schema |-> func_to_schema(func, name)]

\* app.py:326-331 query_db(query: Annotated[str, ...]) wrapped as "query"
QuerySignature ==
  <<[default |-> FALSE, kind |-> "POSITIONAL_OR_KEYWORD", ann |-> <<"Annotated", "str">>]>>
QueryTool == WrappedTool(QuerySignature, "query")

\* the argument lists Toolbox(...) is built with: the wrapped tool alone, or
\* together with the query tool, in either order
ToolLists(t) == { <<t>>, <<t, QueryTool>>, <<QueryTool, t>> }

\* tool.py:26-34 Toolbox(*tools)
Toolbox(tools) ==
  [made |-> TRUE, tools |-> tools, schema |-> [i \in DOMAIN tools |-> tools[i].schema]]

InitRegistration ==
  /\ InitLoop
  /\ tcall = [id |-> "", name |-> "", arguments |-> ""]
  /\ tfunc = "return"
  /\ top = "none"
  /\ tresult = [tool_call_id |-> "", role |-> "", name |-> "", content |-> ""]
  /\ tinvoked = <<>>
  /\ InitFlights
  /\ InitUi
  /\ InitStream
  /\ sig \in Signatures
  /\ reg = "defined"
  /\ regerr = ""
  /\ wrapped = NoTool
  /\ toolbox = NoToolbox
  /\ scall = NoCall

\* tool.py:93-99,49-53 @tool on the function: WrappedTool.__init__ derives
\* the schema; an exception of the derivation leaves the decorator
Decorate ==
  /\ reg = "defined"
  /\ LET t == WrappedTool(sig, "foo")
     IN  IF t.schema.ok
         THEN reg' = "registered" /\ wrapped' = t /\ regerr' = regerr
         ELSE reg' = "failed" /\ wrapped' = wrapped /\ regerr' = t.schema.error
  /\ UNCHANGED <<sig, toolbox, scall>>
  /\ UNCHANGED <<loopvars, toolvars, flightvars, streamvars, uivars>>

\* app.py:333 the Toolbox is built from tools that @tool returned
MakeToolbox(tools) ==
  /\ reg = "registered"
  /\ ~toolbox.made
  /\ toolbox' = Toolbox(tools)
  /\ UNCHANGED <<sig, reg, regerr, wrapped, scall>>
  /\ UNCHANGED <<loopvars, toolvars, flightvars, streamvars, uivars>>

\* tool.py:36-46,59-78 a tool call of the conversation is dispatched by the
\* Toolbox; what it reports comes from toolinvoke
ConversationCall(tool_call, behaviour) ==
  /\ toolbox.made
  /\ scall = NoCall
  /\ scall' = Toolbox_call(tool_call, behaviour).content.error
  /\ UNCHANGED <<sig, reg, regerr, wrapped, toolbox>>
  /\ UNCHANGED <<loopvars, toolvars, flightvars, streamvars, uivars>>

NextRegistration ==
  \/ Decorate
  \/ \E tools \in ToolLists(wrapped) : MakeToolbox(tools)
  \/ \E tool_call \in ToolCallParams : \E behaviour \in Behaviours :
       ConversationCall(tool_call, behaviour)

SpecRegistration == InitRegistration /\ [][NextRegistration]_vars

\* --------------------------------------------------- explain_plot.py
MaxAsks == 2

\* the messages of a list object
Contents(id) == IF id = "session" THEN messages ELSE lists[id]

\* an explain_plot that goes on with the list it was given
LocalListAliased(given) == given

\* explain_plot.py:28 messages = [*messages]: the name is bound to a new list
LocalList(given) == "local"

\* explain_plot.py:51 update_filter=lambda *args: None: awaiting what the
\* lambda returns raises inside the tool, whose wrapper reports it
NoneAwaited == "object NoneType can't be used in 'await' expression"

\* query.py:58-84,122 the dispatch of a call by the perform_query of an ask,
\* with the update_filter of explain_plot: no tool changes the dashboard
ExplainOutcome(call, qout) ==
  IF call.name \notin tools_by_name
  THEN Raised("'" \o call.name \o "'", dashboard)
  ELSE IF ~(Required(call.name) \subseteq Provided(call.args))
  THEN Raised("validation error", dashboard)
  ELSE LET payload ==
             CASE call.name = "reset_dashboard" -> ErrorPayload(NoneAwaited)
               [] call.name = "update_dashboard" ->
                    IF qout = "raise" THEN ErrorPayload("query failed")
                    ELSE ErrorPayload(NoneAwaited)
               [] OTHER ->
                    IF qout = "raise" THEN ErrorPayload("query failed")
                    ELSE Payload("rows")
       IN  Returned(ToolMessage(call, payload), dashboard)

\* the complete responses a stream of an ask adds up to: a text, or one call
ExplainResponses ==
  {AIMessage("a")} \cup
  { Msg("assistant", "", <<ToolCall(ereq + 1, k)>>, 0, "") : k \in CallKinds }

\* messages.append(m) on the list object id
AppendTo(id, ms) ==
  /\ messages' = IF id = "session" THEN messages \o ms ELSE messages
  /\ lists' = IF id \in ListIds THEN [lists EXCEPT ![id] = lists[id] \o ms] ELSE lists

\* app.py:228-233 interpret_scatter: explain_plot is called with a copy of
\* the session's list and a keyword it does not take; the call raises
InterpretScatter ==
  /\ epc = "idle"
  /\ lists' = [lists EXCEPT !["argument"] = messages]
  /\ esnap' = messages
  /\ epc' = "failed"
  /\ UNCHANGED <<ebind, eresp, eidx, easks, ereq>>
  /\ UNCHANGED <<loopvars, toolvars, flightvars, streamvars, schemavars, filtervars>>

\* app.py:266-269, explain_plot.py:20-43: interpret_ridge calls explain_plot
\* with a copy of the session's list; explain_plot copies what it was given
\* and renders the plot, which may raise
InterpretRidge(image_ok) ==
  /\ epc = "idle"
  /\ LET local == LocalList("argument")
     IN  /\ ebind' = local
         /\ lists' = [id \in ListIds |->
                        IF id \in {"argument", local} THEN messages ELSE lists[id]]
  /\ esnap' = messages
  /\ epc' = IF image_ok THEN "ask" ELSE "failed"
  /\ UNCHANGED <<eresp, eidx, easks, ereq>>
  /\ UNCHANGED <<loopvars, toolvars, flightvars, streamvars, schemavars, filtervars>>

\* explain_plot.py:45-67, query.py:90: ask runs perform_query on the list
\* bound in explain_plot, first with the instructions and then, from
\* on_user_submit, with every follow-up; the user message is appended
Ask ==
  /\ epc \in {"ask", "open"}
  /\ easks < MaxAsks
  /\ easks' = easks + 1
  /\ AppendTo(ebind, <<HumanMessage(IF epc = "ask" THEN "instructions" ELSE "u")>>)
  /\ epc' = "request"
  /\ UNCHANGED <<ebind, esnap, eresp, eidx, ereq>>
  /\ UNCHANGED <<pc, response, finish, idx, out, sent, nreq, turnreq, turn,
                 nextId, nchunks, dashboard, escaped, dispatched>>
  /\ UNCHANGED <<toolvars, flightvars, streamvars, schemavars, filtervars>>

\* query.py:92-125: a round of the ask: the list is sent, the stream adds up
\* to resp, resp is appended and the round is classified
AskRound(resp) ==
  /\ epc = "request"
  /\ ereq < MaxRequests
  /\ ereq' = ereq + 1
  /\ eresp' = resp
  /\ eidx' = 1
  /\ AppendTo(ebind, <<resp>>)
  /\ epc' = IF Classify(resp) = "dispatch" THEN "dispatch" ELSE "open"
  /\ UNCHANGED <<ebind, esnap, easks>>
  /\ UNCHANGED <<pc, response, finish, idx, out, sent, nreq, turnreq, turn,
                 nextId, nchunks, dashboard, escaped, dispatched>>
  /\ UNCHANGED <<toolvars, flightvars, streamvars, schemavars, filtervars>>

\* query.py:94-97, explain_plot.py:54,69-70: the transport raises; the
\* exception leaves the generator, and when it is the initial ask it leaves
\* explain_plot before on_user_submit is registered
AskStreamRaise ==
  /\ epc = "request"
  /\ epc' = IF easks = 1 THEN "failed" ELSE "open"
  /\ UNCHANGED <<lists, ebind, esnap, eresp, eidx, easks, ereq>>
  /\ UNCHANGED <<loopvars, toolvars, flightvars, streamvars, schemavars, filtervars>>

\* query.py:119-123,131-139: the ask dispatches the call at eidx
AskDispatch(qout) ==
  /\ epc = "dispatch"
  /\ LET call == CallAt(eresp, eidx)
         r == ExplainOutcome(call, qout)
     IN  IF r.raised
         THEN /\ AppendTo(ebind, <<ErrorMessage(r.exc)>>)
              /\ epc' = "open"
              /\ eidx' = eidx
         ELSE /\ AppendTo(ebind, <<r.value>>)
              /\ IF eidx < Len(eresp.tool_calls)
                 THEN epc' = "dispatch" /\ eidx' = eidx + 1
                 ELSE epc' = LoopHead(ereq) /\ eidx' = eidx
  /\ UNCHANGED <<ebind, esnap, eresp, easks, ereq>>
  /\ UNCHANGED <<pc, response, finish, idx, out, sent, nreq, turnreq, turn,
                 nextId, nchunks, dashboard, escaped, dispatched>>
  /\ UNCHANGED <<toolvars, flightvars, streamvars, schemavars, filtervars>>

NextExplain ==
  \/ InterpretScatter
  \/ \E image_ok \in BOOLEAN : InterpretRidge(image_ok)
  \/ Ask
  \/ \E resp \in ExplainResponses : AskRound(resp)
  \/ AskStreamRaise
  \/ \E qout \in QueryOutcomes : AskDispatch(qout)

SpecExplain == Init /\ [][NextExplain]_vars

\* ------------------------------------------------ app.py update_filter
\* the (query, title) pairs update_filter is called with: the reset of
\* query.py:76 and two filters
Filters ==
  { [query |-> "", title |-> ""],
    [query |-> "Q1", title |-> "T1"],
    [query |-> "Q2", title |-> "T2"] }

\* an update_filter that flushes after each set
UpdateFilterBodyFlushing ==
  <<"set_query", "render_query", "render_title",
    "set_title", "render_query", "render_title">>

\* app.py:305-308 the body of update_filter under the reactive lock: both
\* values are set, then the flush re-renders show_query and show_title
\* (app.py:175-181)
UpdateFilterBody == <<"set_query", "set_title", "render_query", "render_title">>

\* a flush cycle of the session: the outputs are re-rendered
FlushBody == <<"render_query", "render_title">>

Body(t) == IF t \in Updaters THEN UpdateFilterBody ELSE FlushBody

\* app.py:302-305 (query.py:71,76): a background task calls update_filter
\* and waits for the reactive lock
CallUpdateFilter(t, f) ==
  /\ t \in Updaters
  /\ ftask[t].at = 0
  /\ ~ftask[t].waiting
  /\ ftask' = [ftask EXCEPT ![t] = [at |-> 0, waiting |-> TRUE,
                                    query |-> f.query, title |-> f.title]]
  /\ UNCHANGED <<flock, frendered>>
  /\ UNCHANGED <<loopvars, toolvars, flightvars, streamvars, schemavars, explainvars>>

\* the session starts a flush cycle of its own and waits for the lock
SessionFlush ==
  /\ ftask["session"].at = 0
  /\ ~ftask["session"].waiting
  /\ ftask' = [ftask EXCEPT !["session"].waiting = TRUE]
  /\ UNCHANGED <<flock, frendered>>
  /\ UNCHANGED <<loopvars, toolvars, flightvars, streamvars, schemavars, explainvars>>

\* app.py:305 async with reactive.lock(): the lock is free and t takes it
Acquire(t) ==
  /\ ftask[t].waiting
  /\ flock = ""
  /\ flock' = t
  /\ ftask' = [ftask EXCEPT ![t].waiting = FALSE, ![t].at = 1]
  /\ UNCHANGED frendered
  /\ UNCHANGED <<loopvars, toolvars, flightvars, streamvars, schemavars, explainvars>>

\* app.py:306-308: the holder of the lock takes the next step of its body;
\* after the last one it leaves the with block and the lock is free
BodyStep(t) ==
  /\ flock = t
  /\ LET step == Body(t)[ftask[t].at]
         last == ftask[t].at = Len(Body(t))
     IN  /\ dashboard' =
              CASE step = "set_query" -> [dashboard EXCEPT !.query = ftask[t].query]
                [] step = "set_title" -> [dashboard EXCEPT !.title = ftask[t].title]
                [] OTHER -> dashboard
         /\ frendered' =
              CASE step = "render_query" -> [frendered EXCEPT !.query = dashboard.query]
                [] step = "render_title" -> [frendered EXCEPT !.title = dashboard.title]
                [] OTHER -> frendered
         /\ ftask' = [ftask EXCEPT ![t].at = IF last THEN 0 ELSE ftask[t].at + 1]
         /\ flock' = IF last THEN "" ELSE flock
  /\ UNCHANGED <<messages, pc, response, finish, idx, out, sent, nreq, turnreq, turn,
                 nextId, nchunks, escaped, dispatched>>
  /\ UNCHANGED <<toolvars, flightvars, streamvars, schemavars, explainvars>>

NextFilter ==
  \/ \E t \in Updaters : \E f \in Filters : CallUpdateFilter(t, f)
  \/ SessionFlush
  \/ \E t \in Tasks : Acquire(t)
  \/ \E t \in Tasks : BodyStep(t)

SpecFilter == Init /\ [][NextFilter]_vars

\* ------------------------------------------------------------ history facts
\* positions of h holding the tool result of the call with this id
ResultsFor(h, id) ==
  {j \in DOMAIN h : h[j].role = "tool" /\ h[j].tool_call_id = id}

\* positions of h holding an assistant message that carries tool calls
CallRounds(h) ==
  {i \in DOMAIN h : h[i].role = "assistant" /\ Len(h[i].tool_calls) > 0}

\* every tool call of every assistant message has exactly one result
Matched(h) ==
  \A i \in CallRounds(h) : \A k \in DOMAIN h[i].tool_calls :
    Cardinality(ResultsFor(h, h[i].tool_calls[k].id)) = 1

\* some assistant message has results for some of its calls and not for others
PartialRound(h) ==
  \E i \in CallRounds(h) : \E k, l \in DOMAIN h[i].tool_calls :
    /\ ResultsFor(h, h[i].tool_calls[k].id) # {}
    /\ ResultsFor(h, h[i].tool_calls[l].id) = {}

\* the round's response went into the history with tool calls
RoundHasCalls == response # None /\ Len(response.tool_calls) > 0 /\ pc # "stream"

\* the turn was ended by the dispatch of the call at idx
AbortedByDispatch == pc = "returned" /\ RoundHasCalls

\* a fragment that is neither model text nor the separator
IsErrorFragment(f) == f.content \notin ChunkTexts /\ f # Separator

\* ------------------------------------------------------------------ claims
\* C1: at every model request, every tool call of every assistant message of
\* the history sent has exactly one tool-result message with the call's id.
C1_RequestHistoryMatched == Matched(sent)

\* C2: a round with finish reason tool_calls and an empty call list does not
\* end the loop (it warns and asks the model again).
C2_EmptyToolCallsRetried ==
  (finish = "tool_calls" /\ response # None /\ Len(response.tool_calls) = 0)
    => pc # "returned"

\* C3: a tool-execution error of a registered tool (bad arguments, failing
\* query) never ends the turn: the dispatch of such a call does not abort.
C3_ToolErrorNeverAborts ==
  AbortedByDispatch => CallAt(response, idx).name \notin tools_by_name

\* C4: an exception of the chat transport during streaming never leaves
\* perform_query; it ends the turn with an inline error fragment.
C4_TransportErrorCaught ==
  /\ escaped # "transport error"
  /\ pc # "raised"

\* C6: once the loop has dispatched a call with an unregistered name, the
\* history holds a ToolResult with the call's id and name, success false
\* and an "unknown tool" error, and the turn has not ended on it.
C6_UnknownToolResult ==
  \A k \in DOMAIN response.tool_calls :
    LET c == response.tool_calls[k] IN
    ( /\ c.name \notin tools_by_name
      /\ \/ pc \in {"dispatch", "cancelled"} /\ k < idx
         \/ pc \in {"request", "returned"} /\ k <= idx )
    => /\ \E j \in ResultsFor(messages, c.id) :
            /\ messages[j].name = c.name
            /\ messages[j].content = ErrorPayload("Unknown tool: " \o c.name)
       /\ ~(pc = "returned" /\ k = idx)

\* C7: a round finished by content_filter, length or an unrecognized signal
\* ends the turn and an error fragment is yielded to the caller.
C7_ErrorFinishSurfaced ==
  finish \in {"content_filter", "length", "other"}
    => /\ pc = "returned"
       /\ \E n \in DOMAIN out : IsErrorFragment(out[n])

\* C8: no model request is ever sent with a history that holds the results
\* of only some of the calls of one assistant message.
C8_NoPartialSubmission == ~PartialRound(sent)

\* C9: tool results stand in the history directly after the assistant
\* message that issued their calls, in the order of the calls, with no
\* other message between them.
C9_ResultsInCallOrder ==
  \A j \in DOMAIN messages :
    messages[j].role = "tool" =>
      \E i \in CallRounds(messages) :
        /\ i < j
        /\ j - i <= Len(messages[i].tool_calls)
        /\ \A m \in (i + 1)..j :
             /\ messages[m].role = "tool"
             /\ messages[m].tool_call_id = messages[i].tool_calls[m - i].id

\* C9 witness: an assistant message with two calls is followed by both results
C9_Witness ==
  \E i \in CallRounds(messages) :
    /\ Len(messages[i].tool_calls) >= 2
    /\ Len(messages) >= i + 2
    /\ messages[i + 1].role = "tool"
    /\ messages[i + 2].role = "tool"

\* C10: after a cancellation the history holds no partially streamed
\* assistant message and no assistant message with results for only some
\* of its calls.
C10_CancelLeavesHistoryConsistent ==
  pc = "cancelled" => ~PartialRound(messages)

\* the wrapper was given a callable that raises, or arguments that do not
\* parse to a JSON object
\* the step that dispatches an update_dashboard call carrying both of its
\* parameters, with the query executor behaving as qout
UpdateDashboardStep(qout) ==
  /\ dispatched' # dispatched
  /\ dispatched'.call.name = "update_dashboard"
  /\ Required("update_dashboard") \subseteq Provided(dispatched'.call.args)
  /\ dispatched'.call.args.query # ""
  /\ dispatched'.qout = qout

\* C13: an update_dashboard call with a non-empty query that the query
\* executor accepts invokes the executor exactly once, with that query, and
\* after it the dashboard sink exactly once, with the same query and title.
C13_ValidateThenUpdateOnce ==
  [][UpdateDashboardStep("rows") =>
       LET a == dispatched'.call.args
       IN  /\ dispatched'.log = <<QueryDbCall(a.query), UpdateFilterCall(a.query, a.title)>>
           /\ dashboard' = [query |-> a.query, title |-> a.title]]_vars

C13_Witness ==
  /\ dispatched.call.name = "update_dashboard"
  /\ dispatched.call.args = ArgsFull
  /\ dispatched.qout = "rows"
  /\ Len(dispatched.log) = 2
  /\ dashboard = [query |-> "SELECT", title |-> "T"]

\* C14: when the query executor rejects the query of an update_dashboard
\* call the dashboard sink is not invoked, the query and title of the
\* dashboard stay what they were, and the result appended for the call
\* reports failure.
C14_RejectedQueryLeavesDashboard ==
  [][UpdateDashboardStep("raise") =>
       /\ \A i \in 1..Len(dispatched'.log) : dispatched'.log[i].fn # "update_filter"
       /\ dashboard' = dashboard
       /\ Len(messages') = Len(messages) + 1
       /\ LET m == messages'[Len(messages')]
          IN  /\ m.role = "tool"
              /\ m.tool_call_id = dispatched'.call.id
              /\ m.content.success = FALSE]_vars

\* a rejected update_dashboard dispatched while the dashboard was filtered
C14_Witness ==
  /\ dispatched.call.name = "update_dashboard"
  /\ dispatched.call.args = ArgsFull
  /\ dispatched.qout = "raise"
  /\ dashboard = [query |-> "SELECT", title |-> "T"]
  /\ messages[Len(messages)].role = "tool"
  /\ messages[Len(messages)].tool_call_id = dispatched.call.id

\* the position of the user message that opened the current turn
TurnStart(h) == CHOOSE i \in DOMAIN h :
  h[i].role = "user" /\ \A j \in DOMAIN h : h[j].role = "user" => j <= i

\* positions of the calls of this name in a sequence of tool calls
CallsNamed(calls, name) == {k \in DOMAIN calls : calls[k].name = name}

\* The turn has ended after two rounds: the first response asked for
\* reset_dashboard once (no update_dashboard after it), the second carried
\* no call and finish reason stop.
ResetTurn ==
  /\ pc = "returned"
  /\ turnreq = 2
  /\ finish = "stop"
  /\ response # None
  /\ Len(response.tool_calls) = 0
  /\ LET calls == messages[TurnStart(messages) + 1].tool_calls
     IN  /\ Cardinality(CallsNamed(calls, "reset_dashboard")) = 1
         /\ \A k \in CallsNamed(calls, "reset_dashboard") :
              \A l \in CallsNamed(calls, "update_dashboard") : l < k

C16_HistoryAppendOnly ==
  /\ [][/\ Len(messages') >= Len(messages)
        /\ SubSeq(messages', 1, Len(messages)) = messages]_vars
  /\ [][turn' # turn =>
          /\ messages' = messages \o <<HumanMessage("u")>>
          /\ nreq' = nreq]_vars
  /\ [][(nreq' # nreq /\ turnreq = 0) =>
          /\ sent' = messages
          /\ sent'[Len(sent')] = HumanMessage("u")]_vars

\* a finished turn that appended the user message, an assistant message
\* with calls, a tool result and the final assistant message
C16_Witness ==
  /\ pc = "returned"
  /\ turnreq = 2
  /\ Len(messages) >= TurnStart(messages) + 3
  /\ messages[TurnStart(messages) + 1].role = "assistant"
  /\ messages[TurnStart(messages) + 2].role = "tool"
  /\ messages[Len(messages)].role = "assistant"

\* the number of blank-line fragments among the fragments yielded
BlankLines(o) == Cardinality({i \in DOMAIN o : o[i].content = "\n\n"})

\* C18: one blank-line fragment is yielded between two consecutive rounds
\* of a turn, after the round's dispatches, and none after the last round:
\* while round n streams or dispatches, and when the turn has ended in
\* round n, the caller has received n - 1 of them; when round n is done and
\* the next request is due it has received n, the last fragment being one.
C18_OneSeparatorBetweenRounds ==
  /\ (pc \in {"stream", "dispatch", "returned", "raised"} /\ turnreq > 0)
       => BlankLines(out) = turnreq - 1
  /\ (pc = "request" /\ turnreq > 0)
       => /\ BlankLines(out) = turnreq
          /\ out[Len(out)] = [role |-> "assistant", content |-> "\n\n"]
          /\ Cardinality(ResultsFor(messages, response.tool_calls[Len(response.tool_calls)].id)) = 1

\* a turn that ended in its second round, after one blank line
C18_Witness ==
  /\ pc = "returned"
  /\ turnreq = 2
  /\ Len(response.tool_calls) = 0
  /\ BlankLines(out) = 1
  /\ out[Len(out)].content = "a"

\* the generator of this submission has started and has not ended
InFlight(f) == flights[f].pc \in {"request", "stream", "dispatch"}

\* a user message stands between a tool call and the result of that call
Interleaved(h) ==
  \E i \in CallRounds(h) : \E k \in DOMAIN h[i].tool_calls :
    \E j \in ResultsFor(h, h[i].tool_calls[k].id) :
      \E u \in DOMAIN h : i < u /\ u < j /\ h[u].role = "user"

C17_FragmentsAreTheText ==
  /\ \A i \in DOMAIN sout : sout[i] # ""
  /\ spc = "appended" => JoinTexts(sout) = normalize_content(sresp)

\* the position of the parameter of this name in a signature
PositionOf(name) == CHOOSE k \in DOMAIN ParamNames : ParamNames[k] = name

\* the parameter at position k of s must be given by every caller
MustBeGiven(s, k) == ~s[k].default /\ s[k].kind \notin Variadic

\* C19: the schema list of a Toolbox holds one descriptor per tool, in the
\* order of the tools; the required list of each names every parameter of
\* the tool that has no default and is not variadic, names nothing else, and
\* follows the order of declaration.
C19_RequiredIsParamsWithoutDefault ==
  toolbox.made =>
    /\ Len(toolbox.schema) = Len(toolbox.tools)
    /\ \A i \in DOMAIN toolbox.tools :
         LET s == toolbox.tools[i].func
             req == toolbox.schema[i].required
         IN  /\ toolbox.schema[i].name = toolbox.tools[i].name
             /\ \A k \in DOMAIN s :
                  MustBeGiven(s, k) <=> (\E j \in DOMAIN req : req[j] = ParamNames[k])
             /\ \A j \in DOMAIN req : PositionOf(req[j]) \in DOMAIN s
             /\ \A j1, j2 \in DOMAIN req :
                  j1 < j2 => PositionOf(req[j1]) < PositionOf(req[j2])

\* a Toolbox of two tools, one with a parameter with default, a variadic
\* one and two required ones around them
C19_Witness ==
  /\ toolbox.made
  /\ Len(toolbox.tools) = 2
  /\ \E i \in DOMAIN toolbox.tools :
       /\ toolbox.tools[i].name = "foo"
       /\ toolbox.schema[i].required = <<"a", "c">>
       /\ toolbox.tools[i].func[2].kind = "VAR_POSITIONAL"

\* the signature has a parameter annotated with a type that has no JSON
\* schema, at the top or inside Annotated or list
HasUnsupported(s) ==
  \E k \in DOMAIN s : s[k].ann # Unannotated /\ s[k].ann[Len(s[k].ann)] = "set"

\* C20: a function with a parameter of unsupported type fails when @tool
\* wraps it, with the schema error, so that it never is a registered tool,
\* no Toolbox is built and no call is made; and no tool call of a
\* conversation reports a schema error.
C20_UnsupportedTypeFailsAtRegistration ==
  /\ HasUnsupported(sig) =>
       /\ reg \in {"defined", "failed"}
       /\ reg = "failed" => regerr = "Unsupported type: set"
       /\ wrapped = NoTool
       /\ ~toolbox.made
       /\ scall = NoCall
  /\ scall # NoCall =>
       /\ reg = "registered"
       /\ scall # "Unsupported type: set"

\* @tool has failed on a signature whose unsupported type stands inside list
C20_Witness ==
  /\ reg = "failed"
  /\ regerr = "Unsupported type: set"
  /\ \E k \in DOMAIN sig : sig[k].ann = <<"list", "set">>

\* C21: the Toolbox dispatches every tool call, of a registered or an
\* unregistered name, by one invocation (one parse of the arguments, one
\* call of a callable), whose result is the one ToolResult of the call.
C21_OneDispatchPerCall ==
  top = "toolbox" =>
    /\ Len(tinvoked) = 1
    /\ tresult = tinvoked[1]

\* the last message of the history is the error message of the except clause
EndsWithError ==
  LET m == messages[Len(messages)]
  IN  m.role = "assistant" /\ Len(m.tool_calls) = 0 /\ m # response

UserMessagesBehind(h, n) == {i \in DOMAIN h : i > n /\ h[i].role = "user"}

\* C22: explain_plot leaves the list it was given as it was: once called,
\* the session's list and the list handed over hold the messages they held
\* at the call, through the initial and every follow-up question; the list
\* the questions are appended to starts with those messages and holds the
\* user message of every question asked so far.
C22_ExplainPlotLeavesCallerList ==
  epc # "idle" =>
    /\ messages = esnap
    /\ lists["argument"] = esnap
    /\ ebind # "" =>
         /\ Len(Contents(ebind)) >= Len(esnap)
         /\ SubSeq(Contents(ebind), 1, Len(esnap)) = esnap
         /\ Cardinality(UserMessagesBehind(Contents(ebind), Len(esnap))) = easks

\* the modal chat has answered the initial and a follow-up question
C22_Witness ==
  /\ epc = "open"
  /\ easks = 2
  /\ ereq = 2
  /\ Len(Contents(ebind)) = Len(esnap) + 4
  /\ messages = esnap

\* the holder of the lock is about to take this step
NextStepIs(step) ==
  \E t \in Tasks : flock = t /\ Body(t)[ftask[t].at] = step

\* C23: readers see the query and the title change together: whenever an
\* output is about to be rendered the dashboard holds the query and the
\* title of one update_filter call, and outside a flush the rendered query
\* and title belong to one call, also with calls of two tasks in flight.
C23_FilterChangesAtomically ==
  /\ (NextStepIs("render_query") \/ NextStepIs("render_title")) => dashboard \in Filters
  /\ ~NextStepIs("render_title") => frendered \in Filters
  /\ dashboard \notin Filters => flock \in Updaters

\* task2 holds the lock with its filter set and not yet rendered, while the
\* outputs show the filter of task1, which waits for the lock again
C23_Witness ==
  /\ flock = "task2"
  /\ NextStepIs("render_query")
  /\ dashboard = [query |-> "Q2", title |-> "T2"]
  /\ frendered = [query |-> "Q1", title |-> "T1"]
  /\ ftask["task1"].waiting

WrapperFailureCase ==
  \/ top = "toolinvoke" /\ (tfunc # "return" \/ tcall.arguments \in {ArgArray, ArgBroken})
  \/ top = "safe_tool" /\ tfunc # "return"

\* C5: a Tool Wrapper around a callable that raises, or given arguments that
\* do not parse to a JSON object, returns a payload with success false and a
\* non-empty error, whatever the exception's message is.
C5_WrapperFailurePayload ==
  WrapperFailureCase
    => /\ tresult.role = "tool"
       /\ tresult.content.success = FALSE
       /\ tresult.content.error # ""

\* the round just classified carried finish reason stop and no tool calls
StopRound ==
  /\ finish = "stop"
  /\ response # None
  /\ Len(response.tool_calls) = 0
  /\ pc # "stream"

\* C12: a round that ends with stop and no tool calls is terminal: its
\* response is the last message of the history, the generator has returned,
\* and until the next user submission no model request is sent and no
\* fragment is yielded.
C12_StopRoundTerminal ==
  /\ [](StopRound => (pc = "returned" /\ messages[Len(messages)] = response))
  /\ [][(StopRound /\ turn' = turn)
          => (nreq' = nreq /\ out' = out /\ messages' = messages)]_vars

\* C12 witness: a turn has ended on a stop round after streaming text
C12_Witness == StopRound /\ pc = "returned" /\ response.content = "a"

====
